---- MODULE Spec2Model ----
(***************************************************************************)
(* PeerOTP (src/otp/index.js): the vault distribution protocol.            *)
(*                                                                         *)
(* A Share Session (runShare) writes its vault to every peer that          *)
(* connects; a Receive Session (runReceive) accepts the first payload      *)
(* whose header is {v: 1, type: "vault_share"}, writes it to disk,         *)
(* acknowledges, and exits.  Both are single-threaded event loops: every   *)
(* action below is one callback run to its first await (or to its end),    *)
(* and every continuation after an await is an action of its own.          *)
(*                                                                         *)
(* JavaScript strings are sequences of one-character strings, JavaScript   *)
(* values are records tagged by typeof (field k), and a payload on the     *)
(* wire is a sequence of frames.                                           *)
(***************************************************************************)
EXTENDS Integers, Sequences, FiniteSets, TLC

\* ------------------------------------------------------------------ bounds

\* Connections a session sees in one run.
MaxConns == 2
\* Data events delivered to a session in one run.
MaxData == 2
\* Interrupt signals delivered to a session in one run.
MaxSigint == 1
\* Largest clock reading (Date.now()) written into a message.
MaxTs == 0

\* Longest byte sequence encoded, over every choice of ByteVals.
MaxRawLen == 3
\* Longest secret typed, over every choice of TypedChars.
MaxTypedLen == 3

\* Last 30-second window from which clock readings are drawn.
MaxWindow == 1

\* loadVault calls in one run.
MaxLoads == 2

\* Runs of setup mode on one working directory.
MaxSetups == 2

\* Seconds of clock time over which the countdown is read.
MaxSeconds == 61

\* ------------------------------------------------------- program constants

PROTO_VER == 1
\* customTopic.length === 64: an explicit topic is 64 hex characters.
TopicHexLen == 64
\* crypto.hash yields 32 bytes.
TopicBytes == 32

\* crypto.randomBytes(20)
SECRET_BYTES == 20

\* A TOTP window: epochMs / 1000 / 30 (line 128).
WINDOW_MS == 30000
\* HMAC-SHA1 yields 20 bytes.
DIGEST_BYTES == 20
\* String(code).padStart(6, '0')
CODE_DIGITS == 6

Conns == 1..MaxConns
Times == 0..MaxTs

\* ------------------------------------------------------------ JS strings

Str1 == <<"q">>
StrAb == <<"A", " ", " ", "b">>
StrDefault == <<"d", "e", "f", "a", "u", "l", "t">>
VAULT_SHARE == <<"v", "a", "u", "l", "t", "_", "s", "h", "a", "r", "e">>
VAULT_ACK == <<"v", "a", "u", "l", "t", "_", "a", "c", "k">>

UpperChars == <<"A", "B", "C", "D", "E", "F", "G", "H", "I", "J", "K", "L", "M",
                "N", "O", "P", "Q", "R", "S", "T", "U", "V", "W", "X", "Y", "Z">>
LowerChars == <<"a", "b", "c", "d", "e", "f", "g", "h", "i", "j", "k", "l", "m",
                "n", "o", "p", "q", "r", "s", "t", "u", "v", "w", "x", "y", "z">>

\* /\s/ for the characters the model uses.
IsWs(c) == c \in {" ", "\t", "\n"}

\* String.prototype.toLowerCase, one character.
LowerChar(c) ==
  IF \E i \in 1..Len(UpperChars) : UpperChars[i] = c
  THEN LowerChars[CHOOSE i \in 1..Len(UpperChars) : UpperChars[i] = c]
  ELSE c

ToLowerCase(s) == [i \in 1..Len(s) |-> LowerChar(s[i])]

\* s.replace(/\s+/g, '_'): every maximal run of whitespace becomes one '_'.
RECURSIVE ReplaceWsRuns(_)
ReplaceWsRuns(s) ==
  IF s = <<>> THEN <<>>
  ELSE IF IsWs(Head(s))
       THEN IF Len(s) > 1 /\ IsWs(s[2])
            THEN ReplaceWsRuns(Tail(s))
            ELSE <<"_">> \o ReplaceWsRuns(Tail(s))
       ELSE <<Head(s)>> \o ReplaceWsRuns(Tail(s))

\* ------------------------------------------------------------- JS values

Undefined == [k |-> "undefined"]
JNull == [k |-> "null"]
JNum(n) == [k |-> "number", n |-> n]
JStr(s) == [k |-> "string", s |-> s]
JArr(items) == [k |-> "array", items |-> items]
\* f is a record: property name |-> value.
JObj(f) == [k |-> "object", f |-> f]

Nullish(x) == x.k \in {"undefined", "null"}

\* o.p for a value that is not null or undefined (reading a property of
\* those throws TypeError; callers test Nullish first).
Get(o, p) == IF o.k = "object" /\ p \in DOMAIN o.f THEN o.f[p] ELSE Undefined

\* ------------------------------------------------------------------ wire

\* A data event carries a sequence of frames.  A "whole" frame is one
\* complete JSON text; "junk" is bytes that are no JSON text.
Whole(doc) == <<[part |-> "whole", doc |-> doc]>>
Junk == <<[part |-> "junk"]>>

\* JSON.stringify of a value that came from JSON.parse or from runSetup.
JsonStringify(x) == Whole(x)

\* JSON.parse(raw.toString()): a value, or a SyntaxError.
JsonParse(raw) ==
  IF Len(raw) = 1 /\ raw[1].part = "whole"
  THEN [threw |-> FALSE, val |-> raw[1].doc]
  ELSE [threw |-> TRUE]

\* ---------------------------------------------------------- vault records

Created0 == <<"2", "0", "2", "5">>
Secret0 == <<"J", "B", "S", "W">>
Label0 == <<"A", "W", "S">>

\* runSetup line 261: { label, issuer, secret }.
MkEntry(label, issuer, secret) ==
  JObj([label |-> JStr(label), issuer |-> JStr(issuer), secret |-> JStr(secret)])

\* runSetup line 240: { name, created, entries }.
MkVault(name, entries) ==
  JObj([name |-> JStr(name), created |-> JStr(Created0), entries |-> JArr(entries)])

\* A 64-character vault name (no hex digit in it).
Name64 == [i \in 1..TopicHexLen |-> "z"]

\* Names runSetup can give a vault: trimmed and never empty (line 239).
VaultNames == {Str1, StrAb, Name64}

\* Vaults a Share Session can hold (requireVault, then line 337 reads
\* vault.entries.length): the records runSetup saves.
VaultOf(name) ==
  IF name = Str1 THEN MkVault(name, <<>>)
  ELSE MkVault(name, <<MkEntry(Label0, Label0, Secret0)>>)

ShareVaults == {VaultOf(n) : n \in VaultNames}

\* ---------------------------------------------------------------- topics

SeedPrefix == <<"p", "e", "e", "r", "o", "t", "p", ":", "v", "a", "u", "l", "t", ":">>
SeedSuffix == <<":", "i", "n", "t", "e", "r", "c", "o", "m", "-", "v", "i", "b", "e",
                "-", "2", "0", "2", "5">>

\* `peerotp:vault:${name}:intercom-vibe-2025`
TopicSeed(name) == SeedPrefix \o name \o SeedSuffix

\* The strings the sessions of this model hash.
SeedTable ==
  <<TopicSeed(Str1), TopicSeed(StrAb), TopicSeed(Name64), TopicSeed(StrDefault),
    TopicSeed(<<"a", "b">>)>>

\* crypto.hash (BLAKE2b-256): 32 bytes, modelled as injective on SeedTable.
Hash(seed) ==
  LET n == IF \E i \in 1..Len(SeedTable) : SeedTable[i] = seed
           THEN CHOOSE i \in 1..Len(SeedTable) : SeedTable[i] = seed
           ELSE 0
  IN [i \in 1..TopicBytes |-> (n * 37 + i * 11) % 256]

HexDigits == <<"0", "1", "2", "3", "4", "5", "6", "7", "8", "9",
               "a", "b", "c", "d", "e", "f">>

\* The value of one hex digit, -1 for any other character (either case).
HexVal(c) ==
  LET l == LowerChar(c)
  IN IF \E i \in 1..16 : HexDigits[i] = l
     THEN (CHOOSE i \in 1..16 : HexDigits[i] = l) - 1
     ELSE -1

\* b4a.toString(buf, 'hex'): two lower-case digits per byte.
RECURSIVE ToHex(_)
ToHex(bytes) ==
  IF bytes = <<>> THEN <<>>
  ELSE <<HexDigits[(Head(bytes) \div 16) + 1], HexDigits[(Head(bytes) % 16) + 1]>>
       \o ToHex(Tail(bytes))

\* A hex decoder that takes the digits 0-9 only.
RECURSIVE FromHexDigitsOnly(_)
FromHexDigitsOnly(s) ==
  IF Len(s) < 2 THEN <<>>
  ELSE IF HexVal(s[1]) \notin 0..9 \/ HexVal(s[2]) \notin 0..9 THEN <<>>
  ELSE <<HexVal(s[1]) * 16 + HexVal(s[2])>> \o FromHexDigitsOnly(SubSeq(s, 3, Len(s)))

\* b4a.from(str, 'hex'): decodes pairs of digits and stops at the first pair
\* that is not two hex digits; a trailing single character is dropped.
RECURSIVE FromHex(_)
FromHex(s) ==
  IF Len(s) < 2 THEN <<>>
  ELSE IF HexVal(s[1]) < 0 \/ HexVal(s[2]) < 0 THEN <<>>
  ELSE <<HexVal(s[1]) * 16 + HexVal(s[2])>> \o FromHex(SubSeq(s, 3, Len(s)))

\* ToBoolean of a string-or-undefined value: '' and undefined are falsy.
Truthy(a) == ~(a.k = "undefined" \/ (a.k = "string" /\ a.s = <<>>))

\* a || b
OrElse(a, b) == IF Truthy(a) THEN a ELSE b

\* VAULT_NAME = args.vault || 'default' (line 56).
VAULT_NAME(vaultArg) == OrElse(vaultArg, JStr(StrDefault)).s

\* runShare lines 341-343: the topic and the key it prints.
ShareTopic(vault) == Hash(TopicSeed(Get(vault, "name").s))
ShareTopicHex(vault) == ToHex(ShareTopic(vault))

\* A receiver that hashes the bare name, without the salt around it.
ReceiveTopicUnsalted(customTopic, vaultArg) ==
  IF Truthy(customTopic)
  THEN LET full == IF Len(customTopic.s) = TopicHexLen
                   THEN customTopic.s
                   ELSE ToHex(Hash(customTopic.s))
       IN FromHex(full)
  ELSE Hash(VAULT_NAME(vaultArg))

\* runReceive lines 404-415.
ReceiveTopic(customTopic, vaultArg) ==
  IF Truthy(customTopic)
  THEN LET full == IF Len(customTopic.s) = TopicHexLen
                   THEN customTopic.s
                   ELSE ToHex(Hash(TopicSeed(customTopic.s)))
       IN FromHex(full)
  ELSE Hash(TopicSeed(VAULT_NAME(vaultArg)))

\* --------------------------------------------------------------- messages

\* runShare lines 356-361.
SharePayload(vault, t) ==
  JsonStringify(JObj([v |-> JNum(PROTO_VER), type |-> JStr(VAULT_SHARE),
                      vault |-> vault, ts |-> JNum(t)]))

\* runReceive line 448.
AckPayload(t) == JsonStringify(JObj([type |-> JStr(VAULT_ACK), ts |-> JNum(t)]))

\* ------------------------------------------------------------- Base32

\* Two characters outside ASCII, written here by name: U+00DF (sharp s) and
\* U+017F (long s).  String.prototype.toUpperCase maps them to "SS" and "S".
SharpS == "sharp-s"
LongS == "long-s"

\* String.prototype.toUpperCase, one character: a string.
UpperChar(c) ==
  IF \E i \in 1..Len(LowerChars) : LowerChars[i] = c
  THEN <<UpperChars[CHOOSE i \in 1..Len(LowerChars) : LowerChars[i] = c]>>
  ELSE IF c = SharpS THEN <<"S", "S">>
  ELSE IF c = LongS THEN <<"S">>
  ELSE <<c>>

RECURSIVE ToUpperCase(_)
ToUpperCase(s) ==
  IF s = <<>> THEN <<>> ELSE UpperChar(Head(s)) \o ToUpperCase(Tail(s))

\* s.replace(/=+$/, ''): the run of '=' that ends the string is removed.
RECURSIVE StripTrailingEq(_)
StripTrailingEq(s) ==
  IF s # <<>> /\ s[Len(s)] = "=" THEN StripTrailingEq(SubSeq(s, 1, Len(s) - 1)) ELSE s

\* s.replace(/\s/g, '')
StripWs(s) == SelectSeq(s, LAMBDA c : ~IsWs(c))

\* lines 77 and 98.
ALPHABET == UpperChars \o <<"2", "3", "4", "5", "6", "7">>

\* ALPHABET.indexOf(ch), 0-based, -1 when absent.
IndexOf(ch) ==
  IF \E i \in 1..Len(ALPHABET) : ALPHABET[i] = ch
  THEN (CHOOSE i \in 1..Len(ALPHABET) : ALPHABET[i] = ch) - 1
  ELSE -1

\* value << 1 on a 32-bit signed integer: bit 31 is lost and bit 30
\* becomes the sign.
Shl1(value) ==
  IF value >= 2 ^ 30 THEN ((value - 2 ^ 30) - 2 ^ 30) * 2
  ELSE IF value < -(2 ^ 30) THEN ((value + 2 ^ 30) + 2 ^ 30) * 2
  ELSE value * 2

\* value << k on a 32-bit signed integer.
RECURSIVE Shl32(_, _)
Shl32(value, k) == IF k = 0 THEN value ELSE Shl32(Shl1(value), k - 1)

\* (value >>> k) & (2^w - 1) on a 32-bit signed integer, for k + w < 32:
\* bits k .. k + w - 1 of the two's complement pattern.
ShrMask(value, k, w) == (value % (2 ^ (k + w))) \div (2 ^ k)

\* lines 81-90: the loop over the characters of s.
RECURSIVE DecodeLoop(_, _, _, _)
DecodeLoop(s, bits, value, output) ==
  IF s = <<>> THEN output
  ELSE LET idx == IndexOf(Head(s))
       IN IF idx = -1 THEN DecodeLoop(Tail(s), bits, value, output)
          ELSE LET v == Shl32(value, 5) + idx
                   b == bits + 5
               IN IF b >= 8
                  THEN DecodeLoop(Tail(s), b - 8, v,
                                  Append(output, ShrMask(v, b - 8, 8)))
                  ELSE DecodeLoop(Tail(s), b, v, output)

\* lines 76-92.
base32Decode(str) ==
  DecodeLoop(StripWs(StripTrailingEq(ToUpperCase(str))), 0, 0, <<>>)

\* lines 104-107: the inner while loop; yields the bits left and the result.
RECURSIVE EncodeDrain(_, _, _)
EncodeDrain(value, bits, result) ==
  IF bits >= 5
  THEN EncodeDrain(value, bits - 5,
                   Append(result, ALPHABET[ShrMask(value, bits - 5, 5) + 1]))
  ELSE [bits |-> bits, result |-> result]

\* lines 101-108: the loop over the bytes of raw.
RECURSIVE EncodeLoop(_, _, _, _)
EncodeLoop(raw, bits, value, result) ==
  IF raw = <<>> THEN [bits |-> bits, value |-> value, result |-> result]
  ELSE LET v == Shl32(value, 8) + Head(raw)
           d == EncodeDrain(v, bits + 8, result)
       IN EncodeLoop(Tail(raw), d.bits, v, d.result)

\* lines 110-111: '=' until the length is a multiple of 8.
RECURSIVE PadTo8(_)
PadTo8(result) ==
  IF Len(result) % 8 # 0 THEN PadTo8(Append(result, "=")) ELSE result

\* An encoder that drops the bits left over after the last whole character.
generateSecretNoTail(raw) == PadTo8(EncodeLoop(raw, 0, 0, <<>>).result)

\* lines 97-114, for the bytes crypto.randomBytes returned.
generateSecret(raw) ==
  LET e == EncodeLoop(raw, 0, 0, <<>>)
  IN PadTo8(IF e.bits > 0
            THEN Append(e.result, ALPHABET[ShrMask(Shl32(e.value, 5 - e.bits), 0, 5) + 1])
            ELSE e.result)

\* ------------------------------------------------------------------ state

VARIABLES
  \* command line of the Receive Session: args.topic, args.vault
  argTopic, argVault,
  \* the vault the Share Session loaded (requireVault)
  sVault,
  \* Receive Session (runReceive)
  rPhase,      \* "start", "joining" (await disc.flushed()), "listening"
  rTopic,      \* topicBuf
  received,    \* the latch (line 418)
  rSwarm,      \* "open", "destroying", "destroyed"
  rEst,        \* connections whose 'connection' event has run
  rPeers,      \* peers (line 400)
  rOut,        \* what the session wrote on each connection
  rWrites,     \* fs.writeFileSync calls that succeeded, in order
  rCont,       \* suspended continuations (after an await)
  rTimer,      \* the 60 s timer: "unset", "armed", "fired"
  rSigints,    \* interrupt signals delivered
  rExit,       \* <<>> while running, <<code>> once the process has exited
  \* history of the Receive Session's data events
  rN,          \* data events delivered
  rFirst,      \* the first with v = 1 and type "vault_share": <<[conn, raw]>>
  rShared      \* connections that delivered what a Share Session writes

VARIABLES
  \* Share Session (runShare)
  sPhase,      \* "start", "announcing" (await disc.flushed()), "listening"
  sTopic,      \* topicBuf
  sTopicHex,   \* the SHARE TOPIC KEY printed (line 346)
  sSwarm,      \* "open", "destroying", "destroyed"
  sEst,        \* connections whose 'connection' event has run
  sPeers,      \* peers (line 334)
  sOut,        \* what the session wrote on each connection
  sAcks,       \* "confirmed receipt" lines logged (line 374)
  sCont,       \* suspended continuations (after an await)
  sSigints,    \* interrupt signals delivered
  sExit,       \* <<>> while running, <<code>> once the process has exited
  \* history of the Share Session's data events
  sN,          \* data events delivered
  sIn          \* data events delivered on each connection

VARIABLES
  \* Code Engine: generateSecret, base32Decode, totp
  cRaw,         \* the bytes crypto.randomBytes returned (line 99)
  cSecret,      \* <<>>, or <<the string generateSecret returned>>
  cTyped,       \* a secret as typed or stored: the argument of base32Decode, totp
  cDecoded,     \* <<>>, or <<[str, bytes]>>: a base32Decode call and its result
  cEpochMs,     \* the clock readings of two totp calls
  cCodes,       \* the totp calls made: [at, code]
  hmacSel,     \* which function HMAC-SHA1 is taken to be
  \* Vault Store: loadVault, saveVault
  vDisk,        \* the working directory: file name |-> content
  vLoaded,      \* what the loadVault calls returned, in order
  vSaved        \* <<>>, or <<the vault last given to saveVault>>

VARIABLES
  \* the stream of each connection of the Receive Session: what the peer
  \* wrote (sent) and the data events not yet emitted (pending, line 425)
  wire,
  \* runSetup: the runs made, and the answers typed at the prompts of the last
  vAnswers,
  \* secondsRemaining: the last two calls made, [at, rem]
  cRems

\* The variables outside the two sessions.
xvars == <<wire, vAnswers, cRems>>
uvars == <<cRaw, cSecret, cTyped, cDecoded, cEpochMs, cCodes, hmacSel, vDisk, vLoaded, vSaved,
           xvars>>

\* The variables of the two sessions.
pvars == <<argTopic, argVault, sVault, rPhase, rTopic, received, rSwarm, rEst, rPeers,
           rOut, rWrites, rCont, rTimer, rSigints, rExit, rN, rFirst, rShared, sPhase,
           sTopic, sTopicHex, sSwarm, sEst, sPeers, sOut, sAcks, sCont, sSigints, sExit,
           sN, sIn>>

\* What a step of the Receive Session leaves alone.
svars == <<sVault, sPhase, sTopic, sTopicHex, sSwarm, sEst, sPeers, sOut, sAcks, sCont,
           sSigints, sExit, sN, sIn, uvars>>

vars == <<pvars, uvars>>

\* What a step of the Share Session leaves alone.
rvars == <<argTopic, argVault, rPhase, rTopic, received, rSwarm, rEst, rPeers, rOut,
           rWrites, rCont, rTimer, rSigints, rExit, rN, rFirst, rShared, uvars>>

\* ------------------------------------------------- Receive Session: inputs

BadVaultNoEntries == JObj([name |-> JStr(Str1)])
BadVaultNoName == JObj([entries |-> JArr(<<>>)])
BadVaultNoSecret ==
  JObj([name |-> JStr(Str1),
        entries |-> JArr(<<JObj([label |-> JStr(Label0), issuer |-> JStr(Label0)])>>)])

\* What a Share Session writes on connect.
SharePayloads == {SharePayload(VaultOf(n), t) : n \in {Str1, StrAb}, t \in Times}

\* What the peers on the topic may write: Share Sessions and any others.
Payloads ==
  SharePayloads \cup
  { Junk,
    Whole(JNull),
    Whole(JNum(7)),
    AckPayload(0),
    Whole(JObj([v |-> JNum(2), type |-> JStr(VAULT_SHARE), vault |-> VaultOf(StrAb),
                ts |-> JNum(0)])),
    Whole(JObj([type |-> JStr(VAULT_SHARE), vault |-> VaultOf(StrAb), ts |-> JNum(0)])),
    Whole(JObj([v |-> JStr(<<"1">>), type |-> JStr(VAULT_SHARE),
                vault |-> VaultOf(StrAb), ts |-> JNum(0)])),
    Whole(JObj([v |-> JNum(PROTO_VER), type |-> JStr(VAULT_SHARE), ts |-> JNum(0)])),
    Whole(JObj([v |-> JNum(PROTO_VER), type |-> JStr(VAULT_SHARE),
                vault |-> BadVaultNoEntries, ts |-> JNum(0)])),
    Whole(JObj([v |-> JNum(PROTO_VER), type |-> JStr(VAULT_SHARE),
                vault |-> BadVaultNoName, ts |-> JNum(0)])),
    Whole(JObj([v |-> JNum(PROTO_VER), type |-> JStr(VAULT_SHARE),
                vault |-> BadVaultNoSecret, ts |-> JNum(0)])) }

\* ---------------------------------------------- Receive Session: handler

RAlive == rExit = <<>>

\* The latch check left out.
LatchNeverBlocks(latch) == FALSE

\* line 426: if (received) return
LatchBlocks(latch) == latch

\* The version check left out.
HeaderIgnoresVersion(msg) == Get(msg, "type") = JStr(VAULT_SHARE)

\* line 429: the message passes unless type or v differ.
HeaderAccepted(msg) ==
  ~(Get(msg, "type") # JStr(VAULT_SHARE) \/ Get(msg, "v") # JNum(PROTO_VER))

\* totp(secret) throws on secret.replace unless secret is a string (line 129).
TotpThrows(secret) == secret.k # "string"

\* lines 434-442: the statements between the latch and the write that throw
\* TypeError on a vault of the wrong shape.
UseThrows(vault) ==
  \/ Nullish(vault)
  \/ Nullish(Get(vault, "entries"))
  \/ Get(vault, "entries").k # "array"
  \/ \E i \in 1..Len(Get(vault, "entries").items) :
       LET e == Get(vault, "entries").items[i]
       IN Nullish(e) \/ TotpThrows(Get(e, "secret"))
  \/ Get(vault, "name").k # "string"

DotPeerotp == <<".", "p", "e", "e", "r", "o", "t", "p">>

\* line 57: VAULT_FILE = `${VAULT_NAME}.peerotp` in the working directory.
VAULT_FILE(vaultArg) == VAULT_NAME(vaultArg) \o DotPeerotp

\* A load without the existsSync test and the catch: an ENOENT or
\* SyntaxError reaches the caller.
loadVaultUnguarded(disk, vaultArg) ==
  IF VAULT_FILE(vaultArg) \notin DOMAIN disk THEN [k |-> "error"]
  ELSE LET p == JsonParse(disk[VAULT_FILE(vaultArg)])
       IN IF p.threw THEN [k |-> "error"] ELSE p.val

\* lines 173-180, on a disk given as a function from the files that exist
\* to their contents: null for a missing file or one that does not parse.
loadVault(disk, vaultArg) ==
  IF VAULT_FILE(vaultArg) \notin DOMAIN disk THEN JNull
  ELSE LET p == JsonParse(disk[VAULT_FILE(vaultArg)])
       IN IF p.threw THEN JNull ELSE p.val

\* lines 182-184: the disk after saveVault(vault).
saveVault(disk, vaultArg, vault) ==
  [f \in DOMAIN disk \cup {VAULT_FILE(vaultArg)} |->
     IF f = VAULT_FILE(vaultArg) THEN JsonStringify(vault) ELSE disk[f]]

\* A record name that keeps the case of the vault name.
OutFileKeepsCase(vault) == ReplaceWsRuns(Get(vault, "name").s) \o DotPeerotp

\* line 442: `${vault.name.replace(/\s+/g, '_').toLowerCase()}.peerotp`
OutFile(vault) ==
  ToLowerCase(ReplaceWsRuns(Get(vault, "name").s)) \o DotPeerotp

\* A handler that sets the latch only after its await: the step that decides,
\* writes and acknowledges leaves the latch as it found it.
OnDataLatchAfterAwait(raw, latch, fsOk, now) ==
  LET quiet == [latch |-> latch, wrote |-> <<>>, acked |-> <<>>, threw |-> FALSE,
                suspended |-> FALSE]
      p == JsonParse(raw)
  IN IF LatchBlocks(latch) THEN quiet
     ELSE IF p.threw THEN quiet
     ELSE IF Nullish(p.val) THEN [quiet EXCEPT !.threw = TRUE]
     ELSE IF ~HeaderAccepted(p.val) THEN quiet
     ELSE LET vault == Get(p.val, "vault")
          IN IF UseThrows(vault) \/ ~fsOk
             THEN [quiet EXCEPT !.threw = TRUE]
             ELSE [latch |-> latch,
                   wrote |-> <<[file |-> OutFile(vault),
                                content |-> JsonStringify(vault)]>>,
                   acked |-> <<AckPayload(now)>>,
                   threw |-> FALSE,
                   suspended |-> TRUE]

\* The data handler up to its first await (lines 425-450) on a payload,
\* with the latch as it stands and fs.writeFileSync succeeding or throwing:
\* the latch afterwards, the file written, whether the ack was written,
\* whether the handler threw, whether it went on to line 450.
OnData(raw, latch, fsOk, now) ==
  LET quiet == [latch |-> latch, wrote |-> <<>>, acked |-> <<>>, threw |-> FALSE,
                suspended |-> FALSE]
      p == JsonParse(raw)
  IN IF LatchBlocks(latch) THEN quiet
     ELSE IF p.threw THEN quiet
     ELSE IF Nullish(p.val) THEN [quiet EXCEPT !.threw = TRUE]
     ELSE IF ~HeaderAccepted(p.val) THEN quiet
     ELSE LET vault == Get(p.val, "vault")
          IN IF UseThrows(vault) \/ ~fsOk
             THEN [quiet EXCEPT !.latch = TRUE, !.threw = TRUE]
             ELSE [latch |-> TRUE,
                   wrote |-> <<[file |-> OutFile(vault),
                                content |-> JsonStringify(vault)]>>,
                   acked |-> <<AckPayload(now)>>,
                   threw |-> FALSE,
                   suspended |-> TRUE]

\* v = 1 and type "vault_share" on a payload that parses to an object: the
\* header of a ShareMessage (spec section 6), read off the payload itself.
IsVaultShareV1(raw) ==
  /\ Len(raw) = 1
  /\ raw[1].part = "whole"
  /\ raw[1].doc.k = "object"
  /\ "type" \in DOMAIN raw[1].doc.f
  /\ raw[1].doc.f.type = JStr(VAULT_SHARE)
  /\ "v" \in DOMAIN raw[1].doc.f
  /\ raw[1].doc.f.v = JNum(1)

\* ---------------------------------------------- Receive Session: actions

\* swarm.destroy() called from continuation kind k.  A call made while a
\* teardown is already under way may return before that teardown is done.
RecvCallDestroy(k, cont) ==
  /\ rSwarm' = IF rSwarm = "open" THEN "destroying" ELSE rSwarm
  /\ rCont' = cont \cup {[k |-> k, early |-> rSwarm # "open"]}

\* lines 399-461: derive the topic, register the handlers, join.
RecvJoin ==
  /\ RAlive /\ rPhase = "start"
  /\ rTopic' = ReceiveTopic(argTopic, argVault)
  /\ rPhase' = "joining"
  /\ UNCHANGED <<argTopic, argVault, received, rSwarm, rEst, rPeers, rOut, rWrites, rCont, rTimer, rSigints, rExit, rN, rFirst, rShared>>
  /\ UNCHANGED svars

\* lines 462-475: disc.flushed() resolved; arm the timer, hook SIGINT.
RecvFlushed ==
  /\ RAlive /\ rPhase = "joining"
  /\ rPhase' = "listening"
  /\ rTimer' = "armed"
  /\ UNCHANGED <<argTopic, argVault, rTopic, received, rSwarm, rEst, rPeers, rOut, rWrites, rCont, rSigints, rExit, rN, rFirst, rShared>>
  /\ UNCHANGED svars

\* lines 420-423 and 455-457: a connection is established.
RecvConnection(c) ==
  /\ RAlive /\ rPhase # "start" /\ rSwarm # "destroyed"
  /\ c = Cardinality(rEst) + 1
  /\ rEst' = rEst \cup {c}
  /\ rPeers' = rPeers \cup {c}
  /\ UNCHANGED <<argTopic, argVault, rPhase, rTopic, received, rSwarm, rOut,
                 rWrites, rCont, rTimer, rSigints, rExit, rN, rFirst, rShared>>
  /\ UNCHANGED svars

\* lines 425-450: the data handler runs on the bytes of one data event.  A
\* handler that throws rejects its promise, which nothing handles: the
\* runtime either ends the process with code 1 (the default) or only warns
\* (--unhandled-rejections=warn).
RecvDataStep(c, raw, fsOk, now, strict) ==
  LET o == OnData(raw, received, fsOk, now)
  IN /\ RAlive /\ c \in rPeers /\ rN < MaxData
     \* an input that cannot change the outcome is taken at one value
     /\ fsOk \/ o # OnData(raw, received, TRUE, now)
     /\ o.threw \/ ~strict
     /\ rN' = rN + 1
     /\ rShared' = IF raw \in SharePayloads THEN rShared \cup {c} ELSE rShared
     /\ rFirst' = IF rFirst = <<>> /\ IsVaultShareV1(raw)
                  THEN <<[conn |-> c, raw |-> raw]>>
                  ELSE rFirst
     /\ received' = o.latch
     /\ rWrites' = rWrites \o o.wrote
     /\ rOut' = [rOut EXCEPT ![c] = @ \o o.acked]
     /\ rCont' = IF o.suspended THEN rCont \cup {[k |-> "grace"]} ELSE rCont
     /\ rExit' = IF o.threw /\ strict THEN <<1>> ELSE rExit
     /\ UNCHANGED <<argTopic, argVault, rPhase, rTopic, rSwarm, rEst, rPeers, rTimer, rSigints>>

\* line 425: a data event whose bytes are one payload a peer wrote.
RecvData(c, raw, fsOk, now, strict) ==
  /\ raw \in Payloads
  /\ RecvDataStep(c, raw, fsOk, now, strict)
  /\ UNCHANGED svars

\* line 455: conn.on('error', () => {})
RecvConnError(c) ==
  /\ RAlive /\ c \in rPeers
  /\ UNCHANGED vars

\* line 456: conn.on('close', ...)
RecvConnClose(c) ==
  /\ RAlive /\ c \in rPeers
  /\ rPeers' = rPeers \ {c}
  /\ UNCHANGED <<argTopic, argVault, rPhase, rTopic, received, rSwarm, rEst, rOut, rWrites, rCont, rTimer, rSigints, rExit, rN, rFirst, rShared>>
  /\ UNCHANGED svars

\* line 459: swarm.on('error', ...) only warns.
RecvSwarmError ==
  /\ RAlive /\ rPhase # "start"
  /\ UNCHANGED vars

\* line 450 elapsed, line 451 reached: swarm.destroy().
RecvGraceElapsed ==
  /\ RAlive /\ [k |-> "grace"] \in rCont
  /\ RecvCallDestroy("data", rCont \ {[k |-> "grace"]})
  /\ UNCHANGED <<argTopic, argVault, rPhase, rTopic, received, rEst, rPeers, rOut, rWrites, rTimer, rSigints, rExit, rN, rFirst, rShared>>
  /\ UNCHANGED svars

\* lines 466-471: the 60 s timer.
RecvTimeout ==
  /\ RAlive /\ rTimer = "armed"
  /\ rTimer' = "fired"
  /\ IF ~received
     THEN RecvCallDestroy("timer", rCont)
     ELSE UNCHANGED <<rSwarm, rCont>>
  /\ UNCHANGED <<argTopic, argVault, rPhase, rTopic, received, rEst, rPeers, rOut, rWrites, rSigints, rExit, rN, rFirst, rShared>>
  /\ UNCHANGED svars

\* lines 473-475: SIGINT.  Until line 473 has run the signal has its default
\* disposition and ends the process.
RecvSigint ==
  /\ RAlive /\ rSigints < MaxSigint
  /\ rSigints' = rSigints + 1
  /\ IF rPhase = "listening"
     THEN RecvCallDestroy("sigint", rCont) /\ UNCHANGED rExit
     ELSE rExit' = <<130>> /\ UNCHANGED <<rSwarm, rCont>>
  /\ UNCHANGED <<argTopic, argVault, rPhase, rTopic, received, rEst, rPeers, rOut, rWrites, rTimer, rN, rFirst, rShared>>
  /\ UNCHANGED svars

\* The teardown started by swarm.destroy() completes: every connection is
\* closed and the topic is left.
RecvDestroyed ==
  /\ RAlive /\ rSwarm = "destroying"
  /\ rSwarm' = "destroyed"
  /\ rPeers' = {}
  /\ UNCHANGED <<argTopic, argVault, rPhase, rTopic, received, rEst, rOut, rWrites, rCont, rTimer, rSigints, rExit, rN, rFirst, rShared>>
  /\ UNCHANGED svars

\* process.exit after an awaited swarm.destroy(): lines 452, 469, 474.
ExitCodeOf(k) == IF k = "timer" THEN 1 ELSE 0

RecvExit(cont) ==
  /\ RAlive /\ cont \in rCont /\ cont.k # "grace"
  /\ rSwarm = "destroyed" \/ cont.early
  /\ rExit' = <<ExitCodeOf(cont.k)>>
  /\ rCont' = rCont \ {cont}
  /\ UNCHANGED <<argTopic, argVault, rPhase, rTopic, received, rSwarm, rEst, rPeers,
                 rOut, rWrites, rTimer, rSigints, rN, rFirst, rShared>>
  /\ UNCHANGED svars

RecvConts == {[k |-> "grace"]} \cup [k : {"data", "timer", "sigint"}, early : BOOLEAN]

NextRecv ==
  \/ RecvJoin
  \/ RecvFlushed
  \/ \E c \in Conns : RecvConnection(c)
  \/ \E c \in Conns, raw \in Payloads, fsOk \in BOOLEAN, now \in Times,
        strict \in BOOLEAN : RecvData(c, raw, fsOk, now, strict)
  \/ \E c \in Conns : RecvConnError(c)
  \/ \E c \in Conns : RecvConnClose(c)
  \/ RecvSwarmError
  \/ RecvGraceElapsed
  \/ RecvTimeout
  \/ RecvSigint
  \/ RecvDestroyed
  \/ \E cont \in RecvConts : RecvExit(cont)

\* ------------------------------------------------ Share Session: actions

SAlive == sExit = <<>>

\* What a peer of a Share Session may write to it.
ShareInbound ==
  {AckPayload(t) : t \in Times} \cup
  {Junk, Whole(JNull), Whole(JNum(7)), SharePayload(VaultOf(Str1), 0)}

\* lines 370-377: is the "confirmed receipt" line logged?  A TypeError on
\* a null message is caught like a parse error.
LogsAck(raw) ==
  LET p == JsonParse(raw)
  IN ~p.threw /\ ~Nullish(p.val) /\ Get(p.val, "type") = JStr(VAULT_ACK)

\* lines 356-368: what the connection handler writes on the new connection.
OnConnectionWrites(vault, now) == <<SharePayload(vault, now)>>

\* A data handler that answers an ack with the vault again.
ResendOnAck(raw) == IF LogsAck(raw) THEN <<SharePayload(sVault, 0)>> ELSE <<>>

\* lines 370-377: what the data handler writes back.
OnShareDataWrites(raw) == <<>>

ShareCallDestroy(k, cont) ==
  /\ sSwarm' = IF sSwarm = "open" THEN "destroying" ELSE sSwarm
  /\ sCont' = cont \cup {[k |-> k, early |-> sSwarm # "open"]}

\* lines 333-385: derive and print the topic, register the handlers, join.
ShareJoin ==
  /\ SAlive /\ sPhase = "start"
  /\ sTopic' = ShareTopic(sVault)
  /\ sTopicHex' = ShareTopicHex(sVault)
  /\ sPhase' = "announcing"
  /\ UNCHANGED <<sVault, sSwarm, sEst, sPeers, sOut, sAcks, sCont, sSigints, sExit, sN,
                 sIn>>
  /\ UNCHANGED rvars

\* lines 386-394: disc.flushed() resolved; hook SIGINT.
ShareFlushed ==
  /\ SAlive /\ sPhase = "announcing"
  /\ sPhase' = "listening"
  /\ UNCHANGED <<sVault, sTopic, sTopicHex, sSwarm, sEst, sPeers, sOut, sAcks, sCont,
                 sSigints, sExit, sN, sIn>>
  /\ UNCHANGED rvars

\* lines 351-381: a connection is established.
ShareConnection(c, now) ==
  /\ SAlive /\ sPhase # "start" /\ sSwarm # "destroyed"
  /\ c = Cardinality(sEst) + 1
  /\ sEst' = sEst \cup {c}
  /\ sPeers' = sPeers \cup {c}
  /\ sOut' = [sOut EXCEPT ![c] = @ \o OnConnectionWrites(sVault, now)]
  /\ UNCHANGED <<sVault, sPhase, sTopic, sTopicHex, sSwarm, sAcks, sCont, sSigints,
                 sExit, sN, sIn>>
  /\ UNCHANGED rvars

\* A data handler that stops sharing once a peer has confirmed receipt.
ShareDataStopsOnAck(c, raw) ==
  /\ SAlive /\ c \in sPeers /\ sN < MaxData
  /\ sN' = sN + 1
  /\ sIn' = [sIn EXCEPT ![c] = @ + 1]
  /\ sAcks' = IF LogsAck(raw) THEN sAcks + 1 ELSE sAcks
  /\ sSwarm' = IF LogsAck(raw) /\ sSwarm = "open" THEN "destroying" ELSE sSwarm
  /\ UNCHANGED <<sVault, sPhase, sTopic, sTopicHex, sEst, sPeers, sOut, sCont,
                 sSigints, sExit>>
  /\ UNCHANGED rvars

\* lines 370-377: a data event.
ShareData(c, raw) ==
  /\ SAlive /\ c \in sPeers /\ sN < MaxData
  /\ sN' = sN + 1
  /\ sIn' = [sIn EXCEPT ![c] = @ + 1]
  /\ sAcks' = IF LogsAck(raw) THEN sAcks + 1 ELSE sAcks
  /\ sOut' = [sOut EXCEPT ![c] = @ \o OnShareDataWrites(raw)]
  /\ UNCHANGED <<sVault, sPhase, sTopic, sTopicHex, sSwarm, sEst, sPeers, sCont,
                 sSigints, sExit>>
  /\ UNCHANGED rvars

\* line 379: conn.on('error', () => {})
ShareConnError(c) ==
  /\ SAlive /\ c \in sPeers
  /\ UNCHANGED vars

\* line 380: conn.on('close', ...)
ShareConnClose(c) ==
  /\ SAlive /\ c \in sPeers
  /\ sPeers' = sPeers \ {c}
  /\ UNCHANGED <<sVault, sPhase, sTopic, sTopicHex, sSwarm, sEst, sOut, sAcks, sCont,
                 sSigints, sExit, sN, sIn>>
  /\ UNCHANGED rvars

\* line 383: swarm.on('error', ...) only warns.
ShareSwarmError ==
  /\ SAlive /\ sPhase # "start"
  /\ UNCHANGED vars

\* lines 390-394: SIGINT.  Until line 390 has run the signal has its default
\* disposition and ends the process.
ShareSigint ==
  /\ SAlive /\ sSigints < MaxSigint
  /\ sSigints' = sSigints + 1
  /\ IF sPhase = "listening"
     THEN ShareCallDestroy("sigint", sCont) /\ UNCHANGED sExit
     ELSE sExit' = <<130>> /\ UNCHANGED <<sSwarm, sCont>>
  /\ UNCHANGED <<sVault, sPhase, sTopic, sTopicHex, sEst, sPeers, sOut, sAcks, sN, sIn>>
  /\ UNCHANGED rvars

\* The teardown started by swarm.destroy() completes.
ShareDestroyed ==
  /\ SAlive /\ sSwarm = "destroying"
  /\ sSwarm' = "destroyed"
  /\ sPeers' = {}
  /\ UNCHANGED <<sVault, sPhase, sTopic, sTopicHex, sEst, sOut, sAcks, sCont, sSigints,
                 sExit, sN, sIn>>
  /\ UNCHANGED rvars

\* line 393: process.exit(0) after the awaited swarm.destroy().
ShareExit(cont) ==
  /\ SAlive /\ cont \in sCont
  /\ sSwarm = "destroyed" \/ cont.early
  /\ sExit' = <<0>>
  /\ sCont' = sCont \ {cont}
  /\ UNCHANGED <<sVault, sPhase, sTopic, sTopicHex, sSwarm, sEst, sPeers, sOut, sAcks,
                 sSigints, sN, sIn>>
  /\ UNCHANGED rvars

NextShare ==
  \/ ShareJoin
  \/ ShareFlushed
  \/ \E c \in Conns, now \in Times : ShareConnection(c, now)
  \/ \E c \in Conns, raw \in ShareInbound : ShareData(c, raw)
  \/ \E c \in Conns : ShareConnError(c)
  \/ \E c \in Conns : ShareConnClose(c)
  \/ ShareSwarmError
  \/ ShareSigint
  \/ ShareDestroyed
  \/ \E cont \in [k : {"sigint"}, early : BOOLEAN] : ShareExit(cont)

\* ---------------------------------------------------------- specifications

\* args.topic as given to a Receive Session: absent, empty, a vault name,
\* the key a Share Session printed, or some other 64-character string.
TopicArgs ==
  {Undefined, JStr(<<>>), JStr(<<"a", "b">>)}
    \cup {JStr(n) : n \in VaultNames}
    \cup {JStr(ShareTopicHex(v)) : v \in ShareVaults}
    \cup {JStr([i \in 1..TopicHexLen |-> IF i < 3 THEN "A" ELSE "z"])}

VaultArgs == {Undefined} \cup {JStr(n) : n \in VaultNames}

InitRecvState ==
  /\ rPhase = "start"
  /\ rTopic = <<>>
  /\ received = FALSE
  /\ rSwarm = "open"
  /\ rEst = {}
  /\ rPeers = {}
  /\ rOut = [c \in Conns |-> <<>>]
  /\ rWrites = <<>>
  /\ rCont = {}
  /\ rTimer = "unset"
  /\ rSigints = 0
  /\ rExit = <<>>
  /\ rN = 0
  /\ rFirst = <<>>
  /\ rShared = {}

InitShareState ==
  /\ sPhase = "start"
  /\ sTopic = <<>>
  /\ sTopicHex = <<>>
  /\ sSwarm = "open"
  /\ sEst = {}
  /\ sPeers = {}
  /\ sOut = [c \in Conns |-> <<>>]
  /\ sAcks = 0
  /\ sCont = {}
  /\ sSigints = 0
  /\ sExit = <<>>
  /\ sN = 0
  /\ sIn = [c \in Conns |-> 0]

\* Nothing on the wire, runSetup not run, no countdown read.
InitExtra ==
  /\ wire = [c \in Conns |-> [sent |-> <<>>, pending |-> <<>>]]
  /\ vAnswers = [runs |-> 0, last |-> <<>>]
  /\ cRems = <<>>

\* No call of the Code Engine or the Vault Store has been made.
InitIdle ==
  /\ cRaw = <<>>
  /\ cSecret = <<>>
  /\ cTyped = <<>>
  /\ cDecoded = <<>>
  /\ cEpochMs = <<0, 0>>
  /\ cCodes = <<>>
  /\ hmacSel = "mix"
  /\ vDisk = <<>>
  /\ vLoaded = <<>>
  /\ vSaved = <<>>
  /\ InitExtra

\* Both sessions, each started with any command line and any vault.
Init ==
  /\ argTopic \in TopicArgs
  /\ argVault \in VaultArgs
  /\ sVault \in ShareVaults
  /\ InitRecvState
  /\ InitShareState
  /\ InitIdle

Next == NextRecv \/ NextShare

Spec == Init /\ [][Next]_vars

\* A Receive Session alone, its peers being Share Sessions and other peers.
InitRecv ==
  /\ argTopic = Undefined
  /\ argVault = Undefined
  /\ sVault = VaultOf(Str1)
  /\ InitRecvState
  /\ InitShareState
  /\ InitIdle

SpecRecv == InitRecv /\ [][NextRecv]_vars

\* A Share Session alone.
InitShare ==
  /\ argTopic = Undefined
  /\ argVault = Undefined
  /\ sVault \in {VaultOf(Str1), VaultOf(StrAb)}
  /\ InitRecvState
  /\ InitShareState
  /\ InitIdle

SpecShare == InitShare /\ [][NextShare]_vars

\* Topic derivation of both sessions, for every command line and vault.
NextTopic == RecvJoin \/ ShareJoin

SpecTopic == Init /\ [][NextTopic]_vars

\* ------------------------------------------------ Receive Session: claims

\* The vault a payload with a ShareMessage header carries.
CarriedVault(raw) == Get(raw[1].doc, "vault")

\* A Vault as section 3 of the specification has it: a name and a sequence
\* of entries, each with a string secret.
IsVault(x) ==
  /\ x.k = "object"
  /\ Get(x, "name").k = "string"
  /\ Get(x, "entries").k = "array"
  /\ \A i \in 1..Len(Get(x, "entries").items) :
       /\ Get(x, "entries").items[i].k = "object"
       /\ Get(Get(x, "entries").items[i], "secret").k = "string"

\* A well-formed ShareMessage: the header and a Vault.
IsShareMessage(raw) == IsVaultShareV1(raw) /\ IsVault(CarriedVault(raw))

\* Connections on which the session wrote an AckMessage.
AckedConns == {c \in Conns : rOut[c] # <<>>}

\* C1: whatever the connections and the payloads on them, a Receive Session
\* writes at most one vault to disk.
C1_AtMostOneVaultPersisted == Len(rWrites) <= 1

\* C1 witness: two connections each delivered a Share Session's payload and
\* one vault is on disk.
C1_Witness == Len(rWrites) = 1 /\ Cardinality(rShared) >= 2 /\ rN >= 2

\* C2: a vault on disk is the vault carried by the first payload, in arrival
\* order over all connections, with v = 1 and type "vault_share"; a payload
\* that arrives after that one changes neither the latch, the disk, what was
\* written to the connections, nor what the session is waiting for.
C2_FirstShareWins ==
  /\ [](rWrites # <<>> =>
          /\ rFirst # <<>>
          /\ Len(rWrites) = 1
          /\ ~JsonParse(rWrites[1].content).threw
          /\ JsonParse(rWrites[1].content).val = CarriedVault(rFirst[1].raw))
  /\ [][(rFirst # <<>> /\ rN' = rN + 1) =>
          (rWrites' = rWrites /\ rOut' = rOut /\ received' = received
             /\ rCont' = rCont /\ rExit' = rExit)]_vars

\* C2 witness: the vault "A  b" arrived first on connection 1 and is on
\* disk; a Share Session's payload arrived afterwards on connection 2.
C2_Witness ==
  /\ rWrites # <<>>
  /\ rFirst # <<>>
  /\ rFirst[1].conn = 1
  /\ rFirst[1].raw = SharePayload(VaultOf(StrAb), 0)
  /\ 2 \in rShared
  /\ rN = 2

\* C3: at most one AckMessage is written, on the connection the accepted
\* ShareMessage arrived on; and with two peers connected, once payloads of
\* Share Sessions have arrived and nothing else has, exactly one of the
\* connections was written an ack.
C3_ExactlyOneAck ==
  /\ Cardinality(AckedConns) <= 1
  /\ \A c \in AckedConns :
       Len(rOut[c]) = 1 /\ rFirst # <<>> /\ rFirst[1].conn = c
  /\ (Cardinality(rEst) >= 2 /\ rShared # {} /\ rN = Cardinality(rShared)) =>
       Cardinality(AckedConns) = 1

\* C4: a payload that does not parse, or whose type is not "vault_share",
\* or whose v is not 1, arriving when no payload with the header has
\* arrived: the latch stays unset, nothing is on disk, no ack is written,
\* and the session is left as it was, still running and waiting.
C4_BadPayloadIgnored ==
  [][(rN' = rN + 1 /\ rFirst' = <<>>) =>
       (received' = FALSE /\ rWrites' = <<>> /\ rOut' = rOut
          /\ rExit' = <<>> /\ rCont' = rCont /\ rSwarm' = rSwarm
          /\ rTimer' = rTimer /\ rPeers' = rPeers)]_vars

\* C5: a payload that is not a well-formed ShareMessage, arriving while the
\* latch is unset, leaves the latch unset.
C5_MalformedKeepsAwaiting ==
  [][(rN' = rN + 1 /\ ~received /\ rFirst = <<>>
        /\ (rFirst' = <<>> \/ ~IsShareMessage(rFirst'[1].raw))) =>
       received' = FALSE]_vars

\* C6: a session that has exited without an interrupt and without any
\* payload with a ShareMessage header having arrived went through TimedOut:
\* the timer fired, the transport was torn down, the exit code is 1, nothing
\* is on disk and no ack was written.
C6_TimedOutOutcome ==
  (rExit # <<>> /\ rSigints = 0 /\ rFirst = <<>>) =>
    /\ rExit = <<1>>
    /\ rTimer = "fired"
    /\ rSwarm = "destroyed"
    /\ rWrites = <<>>
    /\ AckedConns = {}

\* -------------------------------------------------- Share Session: claims

\* C7: every connection established has been written exactly one message,
\* {v: 1, type: "vault_share", vault, ts} with the session's vault, written
\* by the connection handler (so before any data event on that connection),
\* and no data event adds another; nothing is written on other connections.
C7_OneSharePerConnection ==
  \A c \in Conns :
    IF c \in sEst
    THEN /\ Len(sOut[c]) = 1
         /\ IsVaultShareV1(sOut[c][1])
         /\ CarriedVault(sOut[c][1]) = sVault
         /\ Get(sOut[c][1][1].doc, "ts").k = "number"
         /\ DOMAIN sOut[c][1][1].doc.f = {"v", "type", "vault", "ts"}
    ELSE sOut[c] = <<>> /\ sIn[c] = 0

\* C7 witness: two connections, one of which has delivered an ack, each
\* written one message.
C7_Witness ==
  /\ sEst = {1, 2}
  /\ sAcks >= 1
  /\ \E c \in sEst : sIn[c] >= 1 /\ Len(sOut[c]) = 1

\* C8: a data event or a close on a connection leaves the vault, the
\* topic, the position of the session and its transport as they were; the
\* transport is torn down or the process ended only after an interrupt; and
\* a connection established at any time is written the vault.
C8_InboundLeavesSessionUnchanged ==
  /\ [][(sN' = sN + 1 \/ (sPeers' # sPeers /\ sEst' = sEst /\ sSwarm' = sSwarm)) =>
          (sVault' = sVault /\ sTopic' = sTopic /\ sPhase' = sPhase
             /\ sSwarm' = sSwarm /\ sCont' = sCont /\ sExit' = sExit)]_vars
  /\ []((sSwarm # "open" \/ sExit # <<>>) => sSigints > 0)
  /\ [][\A c \in Conns :
          (c \notin sEst /\ c \in sEst') =>
            (sOut'[c] # <<>> /\ CarriedVault(sOut'[c][1]) = sVault)]_vars

\* C8 witness: an ack was logged, the first connection has closed, and the
\* second connection, still open and silent, was written the vault.
C8_Witness ==
  /\ sAcks >= 1
  /\ sPeers = {2}
  /\ sIn[2] = 0
  /\ sOut[2] # <<>>
  /\ sSwarm = "open"
  /\ sExit = <<>>

\* ------------------------------------------------------------ topic claims

NameOf(vault) == Get(vault, "name").s

\* Both sessions have derived their topic.
BothJoined == rPhase = "joining" /\ sPhase = "announcing"

\* The Receive Session derives its topic from name m: through the vault
\* name option, or through a --topic value that is not 64 characters long.
DerivesFrom(m) ==
  \/ argTopic = Undefined /\ argVault = JStr(m)
  \/ argTopic = JStr(m) /\ Len(m) # TopicHexLen

\* C9: a Receive Session that derives its topic from the name of the Share
\* Session's vault joins the Share Session's topic, and one that derives it
\* from another name joins another topic.
C9_SameNameSameTopic ==
  BothJoined =>
    /\ DerivesFrom(NameOf(sVault)) => rTopic = sTopic
    /\ \A m \in (VaultNames \cup {<<"a", "b">>}) \ {NameOf(sVault)} :
         DerivesFrom(m) => rTopic # sTopic

\* C9 witness: the vault "A  b" is shared and the receiver was started with
\* that name as its --topic value.
C9_Witness ==
  /\ BothJoined
  /\ NameOf(sVault) = StrAb
  /\ argTopic = JStr(StrAb)
  /\ Len(rTopic) = TopicBytes
  /\ rTopic = sTopic

\* C10: a Receive Session given the 64-character key the Share Session
\* printed joins the Share Session's topic: the key decodes to the topic.
C10_PrintedKeyRoundTrip ==
  BothJoined =>
    /\ Len(sTopicHex) = TopicHexLen
    /\ FromHex(sTopicHex) = sTopic
    /\ argTopic = JStr(sTopicHex) => rTopic = sTopic

\* C10 witness: the receiver was started with the printed key.
C10_Witness ==
  /\ BothJoined
  /\ argTopic = JStr(sTopicHex)
  /\ Len(sTopic) = TopicBytes
  /\ rTopic = sTopic

\* ------------------------------------------------------ end to end: C11

\* The working directory after the writes of the Receive Session.
DiskAfter(writes) ==
  [f \in {writes[i].file : i \in 1..Len(writes)} |->
     writes[CHOOSE i \in 1..Len(writes) :
              writes[i].file = f /\ \A j \in (i + 1)..Len(writes) : writes[j].file # f].content]

\* C11: when the payload accepted is what a Share Session holding vault v
\* wrote on connect, the file written is named after v's name with each run
\* of whitespace turned into '_' and lower-cased, and loading the vault of
\* that name gives v back: same name, created, and entries.
C11_ReceivedVaultIdentical ==
  \A v \in ShareVaults, t \in Times :
    (rWrites # <<>> /\ rFirst # <<>> /\ rFirst[1].raw = OnConnectionWrites(v, t)[1]) =>
      LET slug == ToLowerCase(ReplaceWsRuns(Get(v, "name").s))
          back == loadVault(DiskAfter(rWrites), JStr(slug))
      IN /\ rWrites[1].file = slug \o <<".", "p", "e", "e", "r", "o", "t", "p">>
         /\ back = v
         /\ Get(back, "name") = Get(v, "name")
         /\ Get(back, "created") = Get(v, "created")
         /\ Get(back, "entries") = Get(v, "entries")

\* C11 witness: the vault "A  b" with one entry was received and is in
\* a_b.peerotp.
C11_Witness ==
  /\ rFirst # <<>>
  /\ rFirst[1].raw = OnConnectionWrites(VaultOf(StrAb), 0)[1]
  /\ Len(rWrites) = 1
  /\ rWrites[1].file = <<"a", "_", "b", ".", "p", "e", "e", "r", "o", "t", "p">>
  /\ Len(Get(loadVault(DiskAfter(rWrites), JStr(<<"a", "_", "b">>)), "entries").items) = 1

\* ------------------------------------------------------- Code Engine: Base32

\* Every sequence over S of length at most n.
SeqsUpTo(S, n) == UNION {[1..k -> S] : k \in 0..n}

ByteVals == {0, 165, 255}

\* What crypto.randomBytes may return: short sequences, to reach every
\* number of left-over bits, and sequences of the length the program asks for.
RawInputs ==
  SeqsUpTo(ByteVals, MaxRawLen)
    \cup {[i \in 1..SECRET_BYTES |-> v] : v \in ByteVals}
    \cup {[i \in 1..SECRET_BYTES |-> (i * 53) % 256]}

TypedChars == {"A", "b", "7", "1", "=", " ", SharpS, LongS}

\* Secrets a user may type at the prompt of runSetup (line 252).
TypedSecrets ==
  SeqsUpTo(TypedChars, MaxTypedLen)
    \cup {<<"J", "B", "S", "W", "Y", "3", "D", "P">>,
          <<"j", "b", "s", "w", " ", "y", "3", "d", "p", "=", "=">>}

\* The two sessions, not started.
InitSessionsIdle ==
  /\ argTopic = Undefined
  /\ argVault = Undefined
  /\ sVault = VaultOf(Str1)
  /\ InitRecvState
  /\ InitShareState

\* Either random bytes to encode, or a typed secret to decode.
InitBase32 ==
  /\ InitSessionsIdle
  /\ \/ cRaw \in RawInputs /\ cTyped = <<>>
     \/ cRaw = <<>> /\ cTyped \in TypedSecrets
  /\ cSecret = <<>>
  /\ cDecoded = <<>>
  /\ cEpochMs = <<0, 0>>
  /\ cCodes = <<>>
  /\ hmacSel = "mix"
  /\ vDisk = <<>>
  /\ vLoaded = <<>>
  /\ vSaved = <<>>
  /\ InitExtra

\* lines 97-114: generateSecret().
GenerateSecretCall ==
  /\ cSecret = <<>>
  /\ cSecret' = <<generateSecret(cRaw)>>
  /\ UNCHANGED <<cRaw, cTyped, cDecoded, cEpochMs, cCodes, hmacSel, vDisk, vLoaded, vSaved>>
  /\ UNCHANGED <<pvars, xvars>>

\* lines 76-92: base32Decode(str), on the generated secret or the typed one.
Base32DecodeCall(str) ==
  /\ cDecoded = <<>>
  /\ str = cTyped \/ (cSecret # <<>> /\ str = cSecret[1])
  /\ cDecoded' = <<[str |-> str, bytes |-> base32Decode(str)]>>
  /\ UNCHANGED <<cRaw, cSecret, cTyped, cEpochMs, cCodes, hmacSel, vDisk, vLoaded, vSaved>>
  /\ UNCHANGED <<pvars, xvars>>

NextBase32 ==
  \/ GenerateSecretCall
  \/ \E str \in {cTyped} \cup {cSecret[i] : i \in 1..Len(cSecret)} : Base32DecodeCall(str)

SpecBase32 == InitBase32 /\ [][NextBase32]_vars

\* C12: decoding the secret generateSecret made of the bytes b gives b, and
\* that secret is padded to a multiple of 8 characters.
C12_Base32RoundTrip ==
  /\ cSecret # <<>> => Len(cSecret[1]) % 8 = 0
  /\ (cSecret # <<>> /\ cDecoded # <<>> /\ cDecoded[1].str = cSecret[1]) =>
       cDecoded[1].bytes = cRaw

\* C12 witness: twenty bytes 0xFF were encoded to 32 characters and decoded.
C12_Witness ==
  /\ cRaw = [i \in 1..SECRET_BYTES |-> 255]
  /\ cSecret # <<>>
  /\ Len(cSecret[1]) = 32
  /\ cDecoded # <<>>
  /\ cDecoded[1].str = cSecret[1]
  /\ cDecoded[1].bytes = cRaw

\* A character of the Base32 alphabet, in either case.
IsAlphabetChar(c) ==
  \/ \E i \in 1..Len(UpperChars) : UpperChars[i] = c \/ LowerChars[i] = c
  \/ c \in {"2", "3", "4", "5", "6", "7"}

\* s without the characters outside the alphabet, its letters in upper case.
Cleaned(s) ==
  LET kept == SelectSeq(s, IsAlphabetChar)
  IN [i \in 1..Len(kept) |->
        IF \E j \in 1..Len(LowerChars) : LowerChars[j] = kept[i]
        THEN UpperChars[CHOOSE j \in 1..Len(LowerChars) : LowerChars[j] = kept[i]]
        ELSE kept[i]]

\* C13: base32Decode(s) is the decode of s cleaned, has floor(5k/8) bytes
\* for the k alphabet characters of s, and is empty when s has none.
C13_LenientDecode ==
  cDecoded # <<>> =>
    LET s == cDecoded[1].str
        k == Len(Cleaned(s))
    IN /\ cDecoded[1].bytes = base32Decode(Cleaned(s))
       /\ Len(cDecoded[1].bytes) = (5 * k) \div 8
       /\ k = 0 => cDecoded[1].bytes = <<>>

\* --------------------------------------------------------- Code Engine: totp

\* The sum of seq[j] * j, modulo 256.
RECURSIVE SumW(_)
SumW(seq) ==
  IF seq = <<>> THEN 0
  ELSE (SumW(SubSeq(seq, 1, Len(seq) - 1)) + seq[Len(seq)] * Len(seq)) % 256

HmacSels == {"mix", "ones", "zeros", "seven", "sha1"}

\* The secret BVW32 decodes to the key 0d 6d bd.
SecretBVW32 == <<"B", "V", "W", "3", "2">>

\* HMAC-SHA1 of the key 0d 6d bd and the 8-byte counters 0 and 1.
Sha1Digests ==
  <<[key |-> <<13, 109, 189>>, data |-> <<0, 0, 0, 0, 0, 0, 0, 0>>,
     digest |-> <<79, 9, 22, 133, 243, 113, 117, 142, 49, 111, 158, 219, 203, 100,
                  162, 65, 75, 223, 243, 55>>],
    [key |-> <<13, 109, 189>>, data |-> <<0, 0, 0, 0, 0, 0, 0, 1>>,
     digest |-> <<237, 43, 29, 50, 133, 137, 124, 19, 103, 82, 147, 15, 182, 44, 44,
                  155, 94, 99, 111, 77>>]>>

\* The digests above cover this key and data.
Sha1Known(keyBuf, dataBuf) ==
  \E i \in 1..Len(Sha1Digests) :
    Sha1Digests[i].key = keyBuf /\ Sha1Digests[i].data = dataBuf

\* lines 119-121: HMAC-SHA1 is a function of key and data to 20 bytes.
\* hmacSel picks the function: "sha1" is HMAC-SHA1 itself on the inputs of
\* Sha1Digests; "mix" (also "sha1" on other inputs) is a function that mixes
\* key and data; the three others are constant, their digests the extremes
\* of the truncation that follows (all bits set, no bit set, the value 7).
HmacSha1(keyBuf, dataBuf) ==
  LET h0 == (SumW(keyBuf) * 5 + SumW(dataBuf) * 3 + Len(keyBuf)) % 256
  IN IF hmacSel = "sha1" /\ Sha1Known(keyBuf, dataBuf)
     THEN Sha1Digests[CHOOSE i \in 1..Len(Sha1Digests) :
                        Sha1Digests[i].key = keyBuf /\ Sha1Digests[i].data = dataBuf].digest
     ELSE [i \in 1..DIGEST_BYTES |->
             CASE hmacSel \in {"mix", "sha1"} -> (h0 * (i + 1) + i * 37 + 11) % 256
               [] hmacSel = "ones" -> 255
               [] hmacSel = "zeros" -> 0
               [] OTHER -> IF i = 4 THEN 7 ELSE 0]

\* lines 132-137: the counter as 8 bytes, most significant first.
RECURSIVE FillCounter(_, _, _)
FillCounter(c, i, counterBuf) ==
  IF i < 0 THEN counterBuf
  ELSE FillCounter(c \div 256, i - 1, [counterBuf EXCEPT ![i + 1] = c % 256])

\* a % b of JavaScript, for b > 0: the sign of a.
JsRem(a, b) == IF a >= 0 \/ a % b = 0 THEN a % b ELSE (a % b) - b

\* String(n) for a non-negative integer.
RECURSIVE Digits(_)
Digits(n) ==
  LET d == <<"0", "1", "2", "3", "4", "5", "6", "7", "8", "9">>[(n % 10) + 1]
  IN IF n < 10 THEN <<d>> ELSE Append(Digits(n \div 10), d)

\* String(n)
NumberToString(n) == IF n < 0 THEN <<"-">> \o Digits(-n) ELSE Digits(n)

\* s.padStart(n, c)
PadStart(s, n, c) == IF Len(s) >= n THEN s ELSE [i \in 1..(n - Len(s)) |-> c] \o s

\* The truncation without the mask on the first byte.
DynamicTruncateNoMask(hmac) ==
  LET offset == hmac[DIGEST_BYTES] % 16
  IN JsRem(Shl32(hmac[offset + 1] % 256, 24) + Shl32(hmac[offset + 2] % 256, 16)
             + Shl32(hmac[offset + 3] % 256, 8) + (hmac[offset + 4] % 256),
           1000000)

\* lines 140-146: offset and code (hmac[i] of the code is hmac[i + 1] here).
\* The four fields share no bit, so | is +.
DynamicTruncate(hmac) ==
  LET offset == hmac[DIGEST_BYTES] % 16
  IN JsRem(Shl32(hmac[offset + 1] % 128, 24) + Shl32(hmac[offset + 2] % 256, 16)
             + Shl32(hmac[offset + 3] % 256, 8) + (hmac[offset + 4] % 256),
           1000000)

\* A code computed from the millisecond, not from the window.
totpOfMillisecond(secret, epochMs) ==
  LET keyBuf == base32Decode(StripWs(secret))
      counterBuf == FillCounter(epochMs, 7, [i \in 1..8 |-> 0])
  IN PadStart(NumberToString(DynamicTruncate(HmacSha1(keyBuf, counterBuf))),
              CODE_DIGITS, "0")

\* A code whose window is 60 seconds long.
totpWindow60(secret, epochMs) ==
  LET keyBuf == base32Decode(StripWs(secret))
      counterBuf == FillCounter(epochMs \div (2 * WINDOW_MS), 7, [i \in 1..8 |-> 0])
  IN PadStart(NumberToString(DynamicTruncate(HmacSha1(keyBuf, counterBuf))),
              CODE_DIGITS, "0")

\* lines 127-149.  Math.floor(epochMs / 1000 / 30) of a non-negative integer
\* is the integer quotient by 30000.
totp(secret, epochMs) ==
  LET counter == epochMs \div WINDOW_MS
      keyBuf == base32Decode(StripWs(secret))
      counterBuf == FillCounter(counter, 7, [i \in 1..8 |-> 0])
  IN PadStart(NumberToString(DynamicTruncate(HmacSha1(keyBuf, counterBuf))),
              CODE_DIGITS, "0")

\* Secrets given to totp: none, a usual one, one with blanks and lower case,
\* one with no character of the alphabet, one outside ASCII.
TotpSecrets ==
  {<<>>, <<"J", "B", "S", "W">>, <<" ", "j", "b", " ", "s", "w">>, <<"1", "=">>,
   <<SharpS>>, SecretBVW32}

\* Clock readings: the first, second and last millisecond of each window,
\* and one in window 256, where the counter takes a second byte.
TotpTimes ==
  {w * WINDOW_MS + d : w \in 0..MaxWindow, d \in {0, 1, WINDOW_MS - 1}}
    \cup {256 * WINDOW_MS + 5}

InitTotp ==
  /\ InitSessionsIdle
  /\ cRaw = <<>>
  /\ cSecret = <<>>
  /\ cDecoded = <<>>
  /\ cTyped \in TotpSecrets
  /\ cEpochMs \in TotpTimes \X TotpTimes
  /\ cCodes = <<>>
  /\ hmacSel \in HmacSels
  /\ vDisk = <<>>
  /\ vLoaded = <<>>
  /\ vSaved = <<>>
  /\ InitExtra

\* totp(secret, epochMs): the i-th call, on one machine or another.
TotpCall(i) ==
  /\ Len(cCodes) = i - 1
  /\ cCodes' = Append(cCodes, [at |-> cEpochMs[i], code |-> totp(cTyped, cEpochMs[i])])
  /\ UNCHANGED <<cRaw, cSecret, cTyped, cDecoded, cEpochMs, hmacSel, vDisk, vLoaded, vSaved>>
  /\ UNCHANGED <<pvars, xvars>>

NextTotp == \E i \in 1..2 : TotpCall(i)

SpecTotp == InitTotp /\ [][NextTotp]_vars

\* C14: two calls of totp with the same secret at times of the same
\* 30-second window return the same code.
C14_SameWindowSameCode ==
  (Len(cCodes) = 2 /\ cCodes[1].at \div 30000 = cCodes[2].at \div 30000) =>
    cCodes[1].code = cCodes[2].code

\* C14 witness: the first and the last millisecond of window 1, with the
\* HMAC that mixes key and counter.
C14_Witness ==
  /\ Len(cCodes) = 2
  /\ hmacSel = "mix"
  /\ cTyped = <<"J", "B", "S", "W">>
  /\ cCodes[1].at = 30000
  /\ cCodes[2].at = 59999
  /\ cCodes[1].code = cCodes[2].code

\* C15: every code totp returns is a string of exactly 6 decimal digits.
C15_SixDigits ==
  \A i \in 1..Len(cCodes) :
    /\ Len(cCodes[i].code) = 6
    /\ \A j \in 1..Len(cCodes[i].code) :
         cCodes[i].code[j] \in {"0", "1", "2", "3", "4", "5", "6", "7", "8", "9"}

\* C15 witness: the empty secret and the digest of all bits set, whose
\* offset is 15 and whose value is 2^31 - 1: the code is 483647; and a
\* digest of value 7, whose code is 000007.
C15_Witness ==
  /\ Len(cCodes) = 2
  /\ \/ cTyped = <<>> /\ hmacSel = "ones"
          /\ cCodes[1].code = <<"4", "8", "3", "6", "4", "7">>
     \/ cTyped = <<"1", "=">> /\ hmacSel = "seven"
          /\ cCodes[1].code = <<"0", "0", "0", "0", "0", "7">>

\* ------------------------------------------------------------ cancellation

\* Both sessions from start to exit, with no peer: join, the 60 s timer,
\* interrupt signals, teardown.
InitCancel ==
  /\ InitSessionsIdle
  /\ InitIdle

NextCancel ==
  \/ RecvJoin
  \/ RecvFlushed
  \/ RecvTimeout
  \/ RecvSigint
  \/ RecvDestroyed
  \/ \E cont \in RecvConts : RecvExit(cont)
  \/ ShareJoin
  \/ ShareFlushed
  \/ ShareSigint
  \/ ShareDestroyed
  \/ \E cont \in [k : {"sigint"}, early : BOOLEAN] : ShareExit(cont)

SpecCancel == InitCancel /\ [][NextCancel]_vars

\* The step ends the Receive Session because of an interrupt signal: the
\* signal itself ends it, or the continuation of the SIGINT listener does.
RecvExitsOnCancel ==
  /\ rExit = <<>>
  /\ rExit' # <<>>
  /\ \/ rSigints' = rSigints + 1
     \/ \E cont \in rCont \ rCont' : cont.k = "sigint"

\* The step ends the Share Session; only an interrupt signal does.
ShareExitsOnCancel == sExit = <<>> /\ sExit' # <<>>

\* C16: a session that has joined its topic and exits on an interrupt
\* signal exits with the teardown of its swarm complete.
C16_TeardownBeforeExit ==
  /\ [][(RecvExitsOnCancel /\ rPhase # "start") => rSwarm = "destroyed"]_vars
  /\ [][(ShareExitsOnCancel /\ sPhase # "start") => sSwarm = "destroyed"]_vars

\* ------------------------------------------------------------ Vault Store

\* Another file of the working directory.
OtherFile == <<"n", "o", "t", "e", "s">>

\* Vaults runSetup saves: no entry, one, or two.
SetupVaults ==
  {MkVault(n, es) : n \in {Str1, StrAb},
                    es \in {<<>>, <<MkEntry(Label0, Label0, Secret0)>>,
                            <<MkEntry(Label0, Label0, Secret0),
                              MkEntry(Str1, Label0, Secret0)>>}}

\* What the vault file may hold when the program starts: a saved vault, or
\* bytes that are no JSON text.
FileContents == {JsonStringify(v) : v \in SetupVaults} \cup {Junk}

\* The working directory when the program starts, for the vault named on
\* the command line: its file is missing or holds some content.
InitVault ==
  /\ argTopic = Undefined
  /\ argVault \in {Undefined, JStr(Str1)}
  /\ sVault = VaultOf(Str1)
  /\ InitRecvState
  /\ InitShareState
  /\ \E other \in {<<>>, [f \in {OtherFile} |-> Junk]} :
       \/ vDisk = other
       \/ \E content \in FileContents :
            vDisk = [f \in DOMAIN other \cup {VAULT_FILE(argVault)} |->
                       IF f = VAULT_FILE(argVault) THEN content ELSE other[f]]
  /\ vLoaded = <<>>
  /\ vSaved = <<>>
  /\ InitExtra
  /\ cRaw = <<>>
  /\ cSecret = <<>>
  /\ cTyped = <<>>
  /\ cDecoded = <<>>
  /\ cEpochMs = <<0, 0>>
  /\ cCodes = <<>>
  /\ hmacSel = "mix"

\* lines 173-180: loadVault().
LoadVaultCall ==
  /\ Len(vLoaded) < MaxLoads
  /\ vLoaded' = Append(vLoaded, loadVault(vDisk, argVault))
  /\ UNCHANGED <<vDisk, vSaved>>
  /\ UNCHANGED <<cRaw, cSecret, cTyped, cDecoded, cEpochMs, cCodes, hmacSel>>
  /\ UNCHANGED <<pvars, xvars>>

\* lines 182-184: saveVault(vault).
SaveVaultCall(vault) ==
  /\ vDisk' = saveVault(vDisk, argVault, vault)
  /\ vSaved' = <<vault>>
  /\ UNCHANGED vLoaded
  /\ UNCHANGED <<cRaw, cSecret, cTyped, cDecoded, cEpochMs, cCodes, hmacSel>>
  /\ UNCHANGED <<pvars, xvars>>

NextVault ==
  \/ LoadVaultCall
  \/ \E vault \in SetupVaults : SaveVaultCall(vault)

SpecVault == InitVault /\ [][NextVault]_vars

\* The vault file is missing or holds no JSON text.
MissingOrUnparsable ==
  \/ VAULT_FILE(argVault) \notin DOMAIN vDisk
  \/ vDisk[VAULT_FILE(argVault)] = Junk

\* C17: a load leaves the directory as it was; it returns null when the file
\* is missing or does not parse; and after a vault with no entries was
\* saved, it returns that vault.
C17_LoadIsTotal ==
  [][vLoaded' # vLoaded =>
       /\ vDisk' = vDisk
       /\ MissingOrUnparsable => vLoaded'[Len(vLoaded')] = JNull
       /\ (vSaved # <<>> /\ Get(vSaved[1], "entries") = JArr(<<>>)) =>
            vLoaded'[Len(vLoaded')] = vSaved[1]]_vars

\* C17 witness: a file that is no JSON text loaded as null, then a vault
\* with no entries saved over it and loaded back, the other file untouched.
C17_Witness ==
  /\ Len(vLoaded) = 2
  /\ vLoaded[1] = JNull
  /\ vSaved = <<MkVault(Str1, <<>>)>>
  /\ vLoaded[2] = MkVault(Str1, <<>>)
  /\ OtherFile \in DOMAIN vDisk
  /\ vDisk[OtherFile] = Junk

\* ------------------------------------- Receive Session: order and liveness

\* C18: the data event that writes the file, writes the ack or suspends at
\* the grace delay is one that found the latch unset and leaves it set; so
\* does the first event with an accepted header; and an event that finds the
\* latch set does none of these.
C18_LatchSetWithAccept ==
  /\ [][(rN' = rN + 1
           /\ (rWrites' # rWrites \/ rOut' # rOut \/ [k |-> "grace"] \in rCont' \ rCont)) =>
          (~received /\ received')]_vars
  /\ [][(rN' = rN + 1 /\ ~received /\ rFirst = <<>> /\ rFirst' # <<>>) => received']_vars
  /\ [][(rN' = rN + 1 /\ received) =>
          (received' /\ rWrites' = rWrites /\ rOut' = rOut /\ rCont' = rCont)]_vars

\* C18 witness: a ShareMessage on connection 2 was accepted and a second
\* data event, from the Share Session on connection 1, came after it.
C18_Witness ==
  /\ received
  /\ Len(rWrites) = 1
  /\ rFirst # <<>>
  /\ rFirst[1].conn = 2
  /\ 1 \in rShared
  /\ rN = 2
  /\ rOut[1] = <<>>
  /\ Len(rOut[2]) = 1

\* C19: an ack is written only with the vault on disk, and, no interrupt
\* having come, the swarm of a session that has accepted is being torn down
\* only with the vault written, the ack written and the grace delay over.
C19_AcceptOrder ==
  /\ AckedConns # {} => rWrites # <<>>
  /\ (received /\ rSigints = 0 /\ rSwarm # "open") =>
       (rWrites # <<>> /\ AckedConns # {} /\ [k |-> "grace"] \notin rCont)

\* A Receive Session whose handlers, timers and teardown are all run in the
\* end: the event loop runs every callback that is due.
SpecRecvLive ==
  /\ InitRecv
  /\ [][NextRecv]_vars
  /\ WF_vars(RecvJoin)
  /\ WF_vars(RecvFlushed)
  /\ WF_vars(RecvTimeout)
  /\ WF_vars(RecvGraceElapsed)
  /\ WF_vars(RecvDestroyed)
  /\ WF_vars(\E cont \in RecvConts : RecvExit(cont))

\* The terminal states of section 5: Stopped after a vault was persisted,
\* TimedOut after the timer fired.
RecvStopped == rExit = <<0>> /\ rWrites # <<>>
RecvTimedOut == rExit = <<1>> /\ rTimer = "fired"

\* C20: unless interrupted, a Receive Session reaches Stopped or TimedOut,
\* and does not stay forever with the latch set, nothing persisted and no
\* timer pending.
C20_EventuallyTerminal ==
  /\ <>(RecvStopped \/ RecvTimedOut \/ rSigints > 0)
  /\ ~<>[](received /\ rWrites = <<>> /\ rTimer # "armed" /\ rExit = <<>>)

\* ------------------------------------------ Receive Session: timeout, exit

\* The teardown the 60 s timer started (line 469) has not led to the exit yet.
TimerTeardownPending == \E cont \in rCont : cont.k = "timer"

\* C21: from the moment the timer has fired and called swarm.destroy(), no
\* data event is accepted (nothing is written to disk or to a connection and
\* the latch stays unset); and a session that has exited with code 1 has no
\* vault on disk and has written no ack.
C21_TimeoutExcludesAcceptance ==
  /\ [][TimerTeardownPending =>
          (rWrites' = rWrites /\ rOut' = rOut /\ received' = received)]_vars
  /\ [](rExit = <<1>> => (rWrites = <<>> /\ AckedConns = {}))

\* C22: a Receive Session that has exited with code 0 has a vault on disk;
\* so its exit code after a timeout or an interrupt with nothing received is
\* not the code of a successful receive.
C22_SuccessOnlyIfPersisted == rExit = <<0>> => rWrites # <<>>

\* ---------------------------------------------- Share Session: cancellation

HeadOf(w) == <<[part |-> "head", doc |-> w[1].doc]>>
TailOf(w) == <<[part |-> "tail", doc |-> w[1].doc]>>

\* The data events a byte stream may emit for the writes of a peer (lines
\* 364 and 425): one per write; the first write cut in two; or the first two
\* writes in one event.
Chunkings(writes) ==
  {writes}
    \cup {<<HeadOf(writes[1]), TailOf(writes[1])>> \o Tail(writes)}
    \cup (IF Len(writes) >= 2
          THEN {<<writes[1] \o writes[2]>> \o Tail(Tail(writes))}
          ELSE {})

\* What a Share Session, or a peer that writes once more, puts on a
\* connection.
PeerWrites(now) ==
  {OnConnectionWrites(sVault, now),
   OnConnectionWrites(sVault, now) \o <<AckPayload(now)>>}

\* The peer at the other end of connection c writes (line 364) and the
\* transport cuts the bytes into data events.
WireWrite(c, now) ==
  /\ RAlive /\ c \in rPeers
  /\ wire[c].sent = <<>>
  /\ \E writes \in PeerWrites(now) :
       \E chunks \in Chunkings(writes) :
         wire' = [wire EXCEPT ![c] = [sent |-> writes, pending |-> chunks]]
  /\ UNCHANGED <<pvars, cRaw, cSecret, cTyped, cDecoded, cEpochMs, cCodes, hmacSel,
                 vDisk, vLoaded, vSaved, vAnswers, cRems>>

\* line 425: the next data event of connection c is emitted.
WireDeliver(c, now) ==
  /\ wire[c].pending # <<>>
  /\ RecvDataStep(c, Head(wire[c].pending), TRUE, now, FALSE)
  /\ wire' = [wire EXCEPT ![c].pending = Tail(@)]
  /\ UNCHANGED <<sVault, sPhase, sTopic, sTopicHex, sSwarm, sEst, sPeers, sOut, sAcks,
                 sCont, sSigints, sExit, sN, sIn>>
  /\ UNCHANGED <<cRaw, cSecret, cTyped, cDecoded, cEpochMs, cCodes, hmacSel, vDisk,
                 vLoaded, vSaved, vAnswers, cRems>>

\* A Receive Session whose peers are Share Sessions of one vault, over a
\* transport that is a byte stream.
InitFraming ==
  /\ argTopic = Undefined
  /\ argVault = Undefined
  /\ sVault \in {VaultOf(Str1), VaultOf(StrAb)}
  /\ InitRecvState
  /\ InitShareState
  /\ InitIdle

NextFraming ==
  \/ RecvJoin
  \/ RecvFlushed
  \/ \E c \in Conns : RecvConnection(c)
  \/ \E c \in Conns, now \in Times : WireWrite(c, now)
  \/ \E c \in Conns, now \in Times : WireDeliver(c, now)
  \/ \E c \in Conns : RecvConnClose(c)
  \/ RecvGraceElapsed
  \/ RecvDestroyed
  \/ \E cont \in RecvConts : RecvExit(cont)

SpecFraming == InitFraming /\ [][NextFraming]_vars

\* C24: when every data event of a connection on which a Share Session
\* wrote its ShareMessage has been emitted, however the transport cut the
\* bytes into events, that ShareMessage has been accepted: the vault it
\* carries is on disk, once.
C24_FramingIndependent ==
  (\E c \in Conns : wire[c].sent # <<>> /\ wire[c].pending = <<>>) =>
    rWrites = <<[file |-> OutFile(sVault), content |-> JsonStringify(sVault)]>>

\* ------------------------------------------------- topic of a Receive Session

\* Every character of s is a hex digit.
AllHex(s) == \A i \in 1..Len(s) : HexVal(s[i]) >= 0

\* C25: the topic a Receive Session has joined is 32 bytes whatever the
\* --topic value; a value of 64 hex digits is the topic itself.
C25_TopicAlways32Bytes ==
  rPhase # "start" =>
    /\ Len(rTopic) = TopicBytes
    /\ (argTopic.k = "string" /\ Len(argTopic.s) = TopicHexLen /\ AllHex(argTopic.s)) =>
         ToHex(rTopic) = ToLowerCase(argTopic.s)

\* ------------------------------------------------ failures of a connection

\* The step is a data event on a Receive Session that has seen no payload
\* with a ShareMessage header, carrying a payload that is no ShareMessage.
RecvMalformedData ==
  /\ rN' = rN + 1
  /\ ~received
  /\ rFirst = <<>>
  /\ rFirst' = <<>> \/ ~IsShareMessage(rFirst'[1].raw)

\* The step is the close of one connection of the Receive Session.
RecvOneClosed == rPeers' # rPeers /\ rEst' = rEst /\ rSwarm' = rSwarm

\* The step is a data event or the close of a connection of the Share Session.
ShareOneFailed == sN' = sN + 1 \/ (sPeers' # sPeers /\ sEst' = sEst /\ sSwarm' = sSwarm)

\* C26: malformed data on a connection of a Receive Session leaves the
\* latch, the timer, the process, the transport and every connection as they
\* were; a close removes that one connection and changes nothing else; in a
\* Share Session a data event or a close leaves the session sharing, and a
\* connection established afterwards is written the vault.
C26_ConnectionFailureIsLocal ==
  /\ [][RecvMalformedData =>
          (received' = received /\ rTimer' = rTimer /\ rExit' = rExit
             /\ rPeers' = rPeers /\ rSwarm' = rSwarm /\ rCont' = rCont
             /\ rWrites' = rWrites)]_vars
  /\ [][RecvOneClosed =>
          (received' = received /\ rTimer' = rTimer /\ rExit' = rExit
             /\ rCont' = rCont /\ rWrites' = rWrites
             /\ rPeers' \subseteq rPeers /\ Cardinality(rPeers \ rPeers') = 1)]_vars
  /\ [][ShareOneFailed =>
          (sVault' = sVault /\ sPhase' = sPhase /\ sSwarm' = sSwarm
             /\ sCont' = sCont /\ sExit' = sExit /\ sOut' = sOut)]_vars

\* ------------------------------------------------------------------ setup

\* String.prototype.trim
RECURSIVE TrimStart(_)
TrimStart(s) == IF s # <<>> /\ IsWs(Head(s)) THEN TrimStart(Tail(s)) ELSE s

RECURSIVE TrimEnd(_)
TrimEnd(s) ==
  IF s # <<>> /\ IsWs(s[Len(s)]) THEN TrimEnd(SubSeq(s, 1, Len(s) - 1)) ELSE s

Trim(s) == TrimEnd(TrimStart(s))

NaN == [k |-> "nan"]

\* The number of leading characters of s that are digits of the radix.
RECURSIVE LeadingDigits(_, _)
LeadingDigits(s, radix) ==
  IF s # <<>> /\ HexVal(Head(s)) >= 0 /\ HexVal(Head(s)) < radix
  THEN 1 + LeadingDigits(Tail(s), radix)
  ELSE 0

\* The value of a string of digits of the radix.
RECURSIVE DigitsValue(_, _)
DigitsValue(s, radix) ==
  IF s = <<>> THEN 0
  ELSE DigitsValue(SubSeq(s, 1, Len(s) - 1), radix) * radix + HexVal(s[Len(s)])

\* parseInt(s): leading white space is skipped, then a sign, then "0x" for
\* radix 16, then the longest run of digits; what follows is ignored; NaN
\* when there is no digit.
ParseInt(s) ==
  LET t == TrimStart(s)
      signed == t # <<>> /\ t[1] \in {"-", "+"}
      u == IF signed THEN Tail(t) ELSE t
      hex == Len(u) >= 2 /\ u[1] = "0" /\ u[2] \in {"x", "X"}
      body == IF hex THEN SubSeq(u, 3, Len(u)) ELSE u
      radix == IF hex THEN 16 ELSE 10
      n == LeadingDigits(body, radix)
      v == DigitsValue(SubSeq(body, 1, n), radix)
  IN IF n = 0 THEN NaN
     ELSE JNum(IF signed /\ t[1] = "-" THEN -v ELSE v)

\* ToBoolean of a value JSON.parse returned.
ToBoolean(x) ==
  CASE x.k \in {"undefined", "null", "nan"} -> FALSE
    [] x.k = "number" -> x.n # 0
    [] x.k = "string" -> x.s # <<>>
    [] OTHER -> TRUE

StrMyTeam == <<"M", "y", "T", "e", "a", "m">>

\* items.splice(idx) : every item from idx on is removed.
RemoveFrom(items, idx) == SubSeq(items, 1, idx)

\* line 228: items.splice(idx, 1), idx counted from 0 and in range.
RemoveAt(items, idx) == SubSeq(items, 1, idx) \o SubSeq(items, idx + 2, Len(items))

\* lines 246-261: the entry made of the answers; raw is what
\* crypto.randomBytes returns if the secret is left empty.
NewEntry(ans, raw) ==
  LET label == Trim(ans.label)
      issuer == IF Trim(ans.issuer) # <<>> THEN Trim(ans.issuer) ELSE label
      typed == StripWs(ToUpperCase(Trim(ans.secret)))
      secret == IF typed = <<>> THEN generateSecret(raw) ELSE typed
  IN MkEntry(label, issuer, secret)

\* lines 244-262: the prompts for a new entry, push, saveVault.
AddEntry(disk, vaultArg, vault, ans, raw) ==
  IF Trim(ans.label) = <<>>
  THEN [disk |-> disk, saved |-> <<>>, threw |-> FALSE]
  ELSE LET items == Append(Get(vault, "entries").items, NewEntry(ans, raw))
           next == JObj([vault.f EXCEPT !.entries = JArr(items)])
       IN [disk |-> saveVault(disk, vaultArg, next), saved |-> <<next>>, threw |-> FALSE]

\* lines 224-236: the delete branch.
DeleteEntry(disk, vaultArg, vault, ans) ==
  LET p == ParseInt(ans.index)
      items == Get(vault, "entries").items
  IN IF p.k = "number" /\ p.n - 1 >= 0 /\ p.n - 1 < Len(items)
     THEN LET next == JObj([vault.f EXCEPT !.entries = JArr(RemoveAt(items, p.n - 1))])
          IN [disk |-> saveVault(disk, vaultArg, next), saved |-> <<next>>,
              threw |-> FALSE]
     ELSE [disk |-> disk, saved |-> <<>>, threw |-> FALSE]

\* lines 209-271: runSetup on a working directory, with the answers typed
\* at its prompts: the directory afterwards, the vault given to saveVault,
\* and whether it threw (line 217 reads vault.entries.length of whatever
\* JSON value the file holds).
runSetup(disk, vaultArg, ans, raw) ==
  LET vault == loadVault(disk, vaultArg)
      choice == ToLowerCase(Trim(ans.choice))
  IN IF ToBoolean(vault)
     THEN IF vault.k # "object" \/ Get(vault, "entries").k # "array"
          THEN [disk |-> disk, saved |-> <<>>, threw |-> TRUE]
          ELSE IF choice = <<"v">> \/ choice = <<"q">>
          THEN [disk |-> disk, saved |-> <<>>, threw |-> FALSE]
          ELSE IF choice = <<"d">>
          THEN DeleteEntry(disk, vaultArg, vault, ans)
          ELSE AddEntry(disk, vaultArg, vault, ans, raw)
     ELSE LET vaultName == IF Trim(ans.name) # <<>> THEN Trim(ans.name) ELSE StrMyTeam
          IN AddEntry(disk, vaultArg, MkVault(vaultName, <<>>), ans, raw)

\* What is typed at "Delete entry number:".
IndexInputs ==
  {<<>>, <<"0">>, <<"1">>, <<"2">>, <<"3">>, <<" ", "2", " ">>, <<"-", "1">>, <<"x">>,
   <<"2", "x">>, <<"0", "x", "2">>}

NoAnswers ==
  [choice |-> <<>>, index |-> <<>>, name |-> <<>>, label |-> <<>>, issuer |-> <<>>,
   secret |-> <<>>]

\* Answers typed in one run of setup mode: view or quit; a delete with an
\* entry number; a new entry, with or without label, issuer and secret,
\* after any other choice.
SetupAnswers ==
  {[NoAnswers EXCEPT !.choice = c] : c \in {<<"v">>, <<"Q", " ">>}}
    \cup {[NoAnswers EXCEPT !.choice = c, !.index = i] :
            c \in {<<"d">>, <<" ", "D">>}, i \in IndexInputs}
    \cup {[choice |-> c, index |-> <<>>, name |-> n, label |-> l, issuer |-> i,
           secret |-> t] :
            c \in {<<>>, <<"a">>}, n \in {<<>>, <<" ", "n">>},
            l \in {<<>>, <<"L", " ">>}, i \in {<<>>, <<"I">>},
            t \in {<<>>, <<"j", "b", " ", "s">>}}

\* The working directory before setup mode is first run: no vault file, a
\* file that is no JSON text, a file holding the JSON text 7, or a vault of
\* no, one or two entries; with or without another file next to it.
InitSetup ==
  /\ InitSessionsIdle
  /\ \E other \in {<<>>, [f \in {OtherFile} |-> Junk]} :
       \/ vDisk = other
       \/ \E content \in {Junk, Whole(JNum(7))}
                           \cup {JsonStringify(v) : v \in {w \in SetupVaults : NameOf(w) = Str1}} :
            vDisk = [f \in DOMAIN other \cup {VAULT_FILE(argVault)} |->
                       IF f = VAULT_FILE(argVault) THEN content ELSE other[f]]
  /\ vLoaded = <<>>
  /\ vSaved = <<>>
  /\ cRaw = [i \in 1..SECRET_BYTES |-> (i * 53) % 256]
  /\ cSecret = <<>>
  /\ cTyped = <<>>
  /\ cDecoded = <<>>
  /\ cEpochMs = <<0, 0>>
  /\ cCodes = <<>>
  /\ hmacSel = "mix"
  /\ wire = [c \in Conns |-> [sent |-> <<>>, pending |-> <<>>]]
  /\ vAnswers = [runs |-> 0, last |-> <<>>]
  /\ cRems = <<>>

\* One run of `node index.js --mode setup`.
RunSetup(ans) ==
  /\ vAnswers.runs < MaxSetups
  \* an answer to a prompt that is not shown is left empty
  /\ ans.name = <<>> \/ ~ToBoolean(loadVault(vDisk, argVault))
  /\ vAnswers' = [runs |-> vAnswers.runs + 1, last |-> <<ans>>]
  /\ \E r \in {runSetup(vDisk, argVault, ans, cRaw)} :
       /\ vDisk' = r.disk
       /\ vSaved' = IF r.saved # <<>> THEN r.saved ELSE vSaved
  /\ UNCHANGED <<cRaw, cSecret, cTyped, cDecoded, cEpochMs, cCodes, hmacSel, vLoaded,
                 wire, cRems>>
  /\ UNCHANGED pvars

NextSetup == \E ans \in SetupAnswers : RunSetup(ans)

SpecSetup == InitSetup /\ [][NextSetup]_vars

\* The entry number typed, when what is typed is a decimal numeral (with a
\* sign or white space around it): a set of one number, or of none.
TypedNumber(s) ==
  CASE Trim(s) = <<"0">> -> {0}
    [] Trim(s) = <<"1">> -> {1}
    [] Trim(s) = <<"2">> -> {2}
    [] Trim(s) = <<"3">> -> {3}
    [] Trim(s) = <<"-", "1">> -> {-1}
    [] OTHER -> {}

\* What is typed holds no number at all.
NonNumeric(s) == Trim(s) = <<>> \/ Trim(s) = <<"x">>

\* items without its i-th item, i counted from 1.
WithoutNth(items, i) ==
  [j \in 1..(Len(items) - 1) |-> IF j < i THEN items[j] ELSE items[j + 1]]

secondsRemainingWrapped(epochMs) == (30 - ((epochMs \div 1000) % 30)) % 30

\* lines 154-156, with epochMs what Date.now() returns.
secondsRemaining(epochMs) == 30 - ((epochMs \div 1000) % 30)

\* Date.now() when the program starts: the epoch, and half a second before
\* the end of window 66665.
ClockStarts == {0, 1999979500}

\* Clock time between two reads of the countdown, in milliseconds.
ClockSteps == {0, 500, 1000}

InitClock ==
  /\ InitSessionsIdle
  /\ cRaw = <<>>
  /\ cSecret = <<>>
  /\ cTyped = <<>>
  /\ cDecoded = <<>>
  /\ cEpochMs \in {<<t, t>> : t \in ClockStarts}
  /\ cCodes = <<>>
  /\ hmacSel = "mix"
  /\ vDisk = <<>>
  /\ vLoaded = <<>>
  /\ vSaved = <<>>
  /\ InitExtra

\* secondsRemaining() is called (lines 162, 282) d milliseconds after the
\* call before it.
SecondsRemainingCall(d) ==
  LET now == IF cRems = <<>> THEN cEpochMs[1] + d ELSE cRems[Len(cRems)].at + d
      call == [at |-> now, rem |-> secondsRemaining(now)]
  IN /\ now <= cEpochMs[1] + MaxSeconds * 1000
     /\ cRems' = IF Len(cRems) < 2 THEN Append(cRems, call) ELSE <<cRems[2], call>>
     /\ UNCHANGED <<cRaw, cSecret, cTyped, cDecoded, cEpochMs, cCodes, hmacSel, vDisk,
                    vLoaded, vSaved, wire, vAnswers>>
     /\ UNCHANGED pvars

NextClock == \E d \in ClockSteps : SecondsRemainingCall(d)

SpecClock == InitClock /\ [][NextClock]_vars

\* C28: the countdown is in 1..30 and is 30 exactly in the first second of
\* a window; of two reads in the same second the second returns what the
\* first did; of two reads in consecutive seconds the second returns one
\* less, or 30 after 1, and it returns 30 exactly when the counter of totp,
\* floor(t / 1000 / 30), has changed between the two.
C28_CountdownWraps ==
  /\ \A i \in 1..Len(cRems) :
       /\ cRems[i].rem \in 1..30
       /\ cRems[i].rem = 30 <=> (cRems[i].at \div 1000) % 30 = 0
  /\ Len(cRems) = 2 =>
       LET a == cRems[1]
           b == cRems[2]
       IN /\ b.at \div 1000 = a.at \div 1000 => b.rem = a.rem
          /\ b.at \div 1000 = (a.at \div 1000) + 1 =>
               /\ b.rem = IF a.rem = 1 THEN 30 ELSE a.rem - 1
               /\ b.rem = 30 <=> (b.at \div 1000) \div 30 # (a.at \div 1000) \div 30

\* C28 witness: a read in the last second of window 0 returned 1 and the
\* read one second later, in window 1, returned 30.
C28_Witness ==
  /\ Len(cRems) = 2
  /\ cRems[1] = [at |-> 29500, rem |-> 1]
  /\ cRems[2] = [at |-> 30500, rem |-> 30]

\* ------------------------------------------- Code Engine: window boundaries

\* Two calls of totp were made, the second 30 seconds after the first.
OneWindowApart == Len(cCodes) = 2 /\ cCodes[2].at = cCodes[1].at + WINDOW_MS

\* The 31-bit value, modulo 10^6, that the counter c gives for the secret.
TruncatedFor(secret, c) ==
  DynamicTruncate(HmacSha1(base32Decode(StripWs(secret)),
                           FillCounter(c, 7, [i \in 1..8 |-> 0])))

\* The digests of both calls are digests of HMAC-SHA1 itself.
RealDigests ==
  /\ hmacSel = "sha1"
  /\ \A i \in 1..2 :
       Sha1Known(base32Decode(StripWs(cTyped)),
                 FillCounter(cCodes[i].at \div WINDOW_MS, 7, [j \in 1..8 |-> 0]))

\* C29: two calls of totp with the same secret, the second 30 seconds after
\* the first, return different codes.
C29_ChangesAtEveryBoundary ==
  (OneWindowApart /\ RealDigests) => cCodes[1].code # cCodes[2].code

\* C29 as amended: the second call is computed from the counter of the
\* first plus one, and the two codes are equal exactly when the digests of
\* the two counters truncate to the same value modulo 10^6.
C29_CounterChangesAtEveryBoundary ==
  OneWindowApart =>
    LET c == cCodes[1].at \div WINDOW_MS
    IN /\ cCodes[2].at \div WINDOW_MS = c + 1
       /\ cCodes[1].code = cCodes[2].code
            <=> TruncatedFor(cTyped, c) = TruncatedFor(cTyped, c + 1)

\* C29 witness: with HMAC-SHA1 itself the secret BVW32 gives 120862 in
\* window 0 and in window 1; with the function that mixes key and counter
\* the secret JBSW gives two codes that differ.
C29_Witness ==
  /\ OneWindowApart
  /\ \/ /\ RealDigests
        /\ cTyped = SecretBVW32
        /\ cCodes[1] = [at |-> 0, code |-> <<"1", "2", "0", "8", "6", "2">>]
        /\ cCodes[2] = [at |-> 30000, code |-> <<"1", "2", "0", "8", "6", "2">>]
     \/ /\ hmacSel = "mix"
        /\ cTyped = <<"J", "B", "S", "W">>
        /\ cCodes[1].code # cCodes[2].code

====
